---- MODULE Spec2Model ----
(***************************************************************************)
(* The two-tier TTL cache of the TMDB client (tmdb-client: memoryCache +   *)
(* localStorage under STORAGE_PREFIX), the fetchWithCache wrapper that all *)
(* public client methods go through, and the cache-key construction of the *)
(* call sites.                                                             *)
(*                                                                         *)
(* JavaScript values are modelled as follows.  Payloads (decoded API       *)
(* responses) are opaque tokens; the JS value null is the token Null.      *)
(* A localStorage value (a string) is a record: tag "json" for the output  *)
(* of JSON.stringify(entry), carrying the entry's fields, tag "malformed"  *)
(* for a string JSON.parse rejects, tag "fav" for the favourites list,     *)
(* tag "none" for the null that getItem returns for a missing key.         *)
(***************************************************************************)
EXTENDS Integers, Sequences, FiniteSets

VARIABLES
    now,          \* Date.now(), in abstract clock units
    memoryCache,  \* the Map memoryCache: key -> [data, timestamp, ttl]
    localStorage, \* the origin's localStorage: sequence of [key, value], in key(i) order
    timers,       \* pending setTimeout(..., 0) callbacks of setInLocalStorage, FIFO
    inflight,     \* fetchWithCache calls suspended at `await fetchFromApi(url)`
    nextId,       \* id of the next fetchWithCache call
    readable,     \* FALSE on a page where localStorage access throws (e.g. SecurityError)
    ret,          \* what the last step did / returned to its caller
    lastSet,      \* history: per key, the most recent setInCache(key, data, ttl)
    parts,        \* key construction: the arguments of the last createCacheKey call
    cacheKey,     \* key construction: its result
    requests,     \* key construction: the requests issued by public client methods
    apiKey,       \* tmdb-client module state: the stored API key
    isInitialized,\* tmdb-client module state: what isReady() returns
    response,     \* the HTTP response the last fetchFromApi call received
    out,          \* what the last initialize / isReady / fetchFromApi call did
    chat,         \* ai-bridge: the sendMessage call in progress
    reply,        \* ai-bridge: how the promise of the last sendMessage call settled
    url,          \* tmdb-client: the last buildUrl call, its arguments and its result
    favOut,       \* storage-manager: what the last favourites call did
    isJournal,    \* navbar search: the page is the journal (local search) or home (TMDB)
    inputValue,   \* navbar search: input.value
    debounceTimer,\* navbar search: the pending debounce timer
    queryToken,   \* navbar search: token of the newest request
    currentQuery, \* navbar search: TMDB state
    currentPage,
    totalPages,
    isLoadingMore,
    resultsByKey, \* navbar search: the result store
    dropdown,     \* navbar search: the dropdown element (hidden or not, its content)
    pending,      \* navbar search: fetchPage calls suspended at `await searchMulti`
    sinceInput    \* navbar search: milliseconds since the last input event

cacheVars == <<now, memoryCache, localStorage, timers, inflight, nextId, readable, ret, lastSet>>
keyVars == <<parts, cacheKey, requests>>
apiVars == <<apiKey, isInitialized, response, out>>
chatVars == <<chat, reply>>
urlVars == <<url>>
favVars == <<favOut>>
navVars == <<isJournal, inputValue, debounceTimer, queryToken, currentQuery, currentPage,
             totalPages, isLoadingMore, resultsByKey, dropdown, pending, sinceInput>>
pageVars == <<urlVars, favVars, navVars>>
vars == <<now, memoryCache, localStorage, timers, inflight, nextId, readable, ret, lastSet,
          parts, cacheKey, requests, apiKey, isInitialized, response, out, chat, reply,
          url, favOut, isJournal, inputValue, debounceTimer, queryToken, currentQuery,
          currentPage, totalPages, isLoadingMore, resultsByKey, dropdown, pending,
          sinceInput>>

-----------------------------------------------------------------------------
(* Bounds of the model *)

MaxTime == 3
MaxCalls == 2
\* the TTLs of the two modelled endpoint categories, in clock units (the
\* code's CACHE_TTL values are hours and days; only their order matters here)
ShortTTL == 1
LongTTL == 2

(* Program constants *)

STORAGE_PREFIX == "filmzimmer:tmdb:"
KEY == "filmzimmer:favourites"

Null == "<null>"

\* cache keys used by the modelled fetchWithCache calls
Keys == {"genres:movie", "movie:550"}
\* 2xx response bodies: a JSON object and the JSON value null
Payloads == {"A", Null}
\* the call sites: each cache key belongs to one client method, which passes the
\* fixed CACHE_TTL of its endpoint category (getMovieGenres: GENRES,
\* getMovieDetails: MOVIE_DETAILS)
CallSites == {[key |-> "genres:movie", ttl |-> LongTTL], [key |-> "movie:550", ttl |-> ShortTTL]}
\* what fetchFromApi throws: a transport error (fetch rejects) or a non-2xx response
Errors == {"TypeError: Failed to fetch", "[TMDB API Error] HTTP 404"}
CacheError == "cache layer exception"

NoItem == [tag |-> "none", data |-> "", timestamp |-> 0, ttl |-> 0]
Malformed == [tag |-> "malformed", data |-> "", timestamp |-> 0, ttl |-> 0]
FavValues == {[tag |-> "fav", data |-> "F1", timestamp |-> 0, ttl |-> 0]}

-----------------------------------------------------------------------------
(* localStorage: getItem / setItem / removeItem / key / length *)

StartsWith(s, p) == Len(s) >= Len(p) /\ SubSeq(s, 1, Len(p)) = p

IndexOf(store, k) ==
    IF \E i \in 1..Len(store) : store[i].key = k
    THEN CHOOSE i \in 1..Len(store) : store[i].key = k
    ELSE 0

getItem(store, k) == IF IndexOf(store, k) = 0 THEN NoItem ELSE store[IndexOf(store, k)].value

setItem(store, k, v) ==
    IF IndexOf(store, k) = 0
    THEN Append(store, [key |-> k, value |-> v])
    ELSE [store EXCEPT ![IndexOf(store, k)] = [key |-> k, value |-> v]]

removeItem(store, k) ==
    IF IndexOf(store, k) = 0 THEN store
    ELSE SubSeq(store, 1, IndexOf(store, k) - 1) \o SubSeq(store, IndexOf(store, k) + 1, Len(store))

\* JSON.stringify(entry) and JSON.parse(raw) (parse is used on tag "json" only;
\* on tag "malformed" it throws, which the callers below model)
JSONstringify(entry) ==
    [tag |-> "json", data |-> entry.data, timestamp |-> entry.timestamp, ttl |-> entry.ttl]
JSONparse(raw) == [data |-> raw.data, timestamp |-> raw.timestamp, ttl |-> raw.ttl]
ParseThrows(raw) == raw.tag # "json"

-----------------------------------------------------------------------------
(* Cache utilities *)

isCacheValid(entry, t) ==
    IF entry.timestamp = 0 \/ entry.ttl = 0 THEN FALSE
    ELSE t - entry.timestamp < entry.ttl

MapRemove(m, k) == [x \in (DOMAIN m) \ {k} |-> m[x]]
MapPut(m, k, v) == [x \in (DOMAIN m) \cup {k} |-> IF x = k THEN v ELSE m[x]]
EmptyMap == [x \in {} |-> NoItem]

\* a getter that sweeps: it drops every expired entry, not only the one asked for
getFromMemoryCache_sweep(mem, t, key) ==
    LET live == [x \in {y \in DOMAIN mem : isCacheValid(mem[y], t)} |-> mem[x]] IN
    IF key \in DOMAIN live THEN [data |-> live[key].data, mem |-> live]
    ELSE [data |-> Null, mem |-> live]

\* returns the data (Null when expired/missing) and the memory tier afterwards
getFromMemoryCache(mem, t, key) ==
    IF key \in DOMAIN mem /\ isCacheValid(mem[key], t)
    THEN [data |-> mem[key].data, mem |-> mem]
    ELSE IF key \in DOMAIN mem
    THEN [data |-> Null, mem |-> MapRemove(mem, key)]
    ELSE [data |-> Null, mem |-> mem]

\* a setter that keeps an entry that is still valid (first writer wins)
setInMemoryCache_keepExisting(mem, t, key, data, ttl) ==
    IF key \in DOMAIN mem /\ isCacheValid(mem[key], t) THEN mem
    ELSE MapPut(mem, key, [data |-> data, timestamp |-> t, ttl |-> ttl])

setInMemoryCache(mem, t, key, data, ttl) ==
    MapPut(mem, key, [data |-> data, timestamp |-> t, ttl |-> ttl])

\* the body of getFromLocalStorage's try block: its result, the store afterwards,
\* whether it threw, and the number of getItem reads it made
getFromLocalStorageTry(store, t, canRead, key) ==
    LET raw == getItem(store, STORAGE_PREFIX \o key) IN
    IF ~canRead THEN [data |-> Null, store |-> store, threw |-> TRUE, reads |-> 1]
    ELSE IF raw.tag = "none" THEN [data |-> Null, store |-> store, threw |-> FALSE, reads |-> 1]
    ELSE IF ParseThrows(raw) THEN [data |-> Null, store |-> store, threw |-> TRUE, reads |-> 1]
    ELSE IF isCacheValid(JSONparse(raw), t)
    THEN [data |-> JSONparse(raw).data, store |-> store, threw |-> FALSE, reads |-> 1]
    ELSE [data |-> Null, store |-> removeItem(store, STORAGE_PREFIX \o key),
          threw |-> FALSE, reads |-> 1]

\* the same without the try/catch: an exception leaves the function
getFromLocalStorage_nocatch(store, t, canRead, key) ==
    getFromLocalStorageTry(store, t, canRead, key)

\* try { ... } catch (error) { console.warn(...); return null; }
getFromLocalStorage(store, t, canRead, key) ==
    LET r == getFromLocalStorageTry(store, t, canRead, key) IN
    IF r.threw THEN [data |-> Null, store |-> r.store, threw |-> FALSE, reads |-> r.reads]
    ELSE r

\* unified getter: memory first, then localStorage with promotion into memory
getFromCache(mem, store, t, canRead, key) ==
    LET m == getFromMemoryCache(mem, t, key)
        s == getFromLocalStorage(store, t, canRead, key)
        raw == getItem(s.store, STORAGE_PREFIX \o key)
    IN
    IF m.data # Null
    THEN [data |-> m.data, mem |-> m.mem, store |-> store, threw |-> FALSE, reads |-> 0]
    ELSE IF s.threw
    THEN [data |-> Null, mem |-> m.mem, store |-> s.store, threw |-> TRUE, reads |-> s.reads]
    ELSE IF s.data # Null
    THEN IF ~canRead \/ (raw.tag # "none" /\ ParseThrows(raw))
         THEN [data |-> Null, mem |-> m.mem, store |-> s.store, threw |-> TRUE,
               reads |-> s.reads + 1]
         ELSE IF raw.tag # "none"
         THEN [data |-> s.data,
               mem |-> setInMemoryCache(m.mem, t, key, s.data, JSONparse(raw).ttl),
               store |-> s.store, threw |-> FALSE, reads |-> s.reads + 1]
         ELSE [data |-> s.data, mem |-> m.mem, store |-> s.store, threw |-> FALSE,
               reads |-> s.reads + 1]
    ELSE [data |-> Null, mem |-> m.mem, store |-> s.store, threw |-> FALSE, reads |-> s.reads]

\* keysToRemove of clearAllCache: the prefixed keys found by the index loop
RECURSIVE keysToRemove(_, _)
keysToRemove(store, i) ==
    IF i >= Len(store) THEN <<>>
    ELSE IF StartsWith(store[i + 1].key, STORAGE_PREFIX)
    THEN <<store[i + 1].key>> \o keysToRemove(store, i + 1)
    ELSE keysToRemove(store, i + 1)

RECURSIVE removeEach(_, _)
removeEach(store, ks) ==
    IF ks = <<>> THEN store ELSE removeEach(removeItem(store, Head(ks)), Tail(ks))

\* a loop that removes while it iterates: the index skips the entry that moved up
RECURSIVE removeWhileIterating(_, _)
removeWhileIterating(store, i) ==
    IF i >= Len(store) THEN store
    ELSE IF StartsWith(store[i + 1].key, STORAGE_PREFIX)
    THEN removeWhileIterating(removeItem(store, store[i + 1].key), i + 1)
    ELSE removeWhileIterating(store, i + 1)

clearPrefixed_inLoop(store) == removeWhileIterating(store, 0)

\* the !memoryOnly branch of clearAllCache
clearPrefixed(store) == removeEach(store, keysToRemove(store, 0))

-----------------------------------------------------------------------------
(* Cache-key construction.  A JavaScript argument is a record: its type, and its
   string or number value. *)

Str(x) == [t |-> "string", s |-> x, n |-> 0]
Num(x) == [t |-> "number", s |-> "", n |-> x]
Undefined == [t |-> "undefined", s |-> "", n |-> 0]
JsNull == [t |-> "null", s |-> "", n |-> 0]

\* Boolean(v): the truthiness that Array.prototype.filter(Boolean) tests
Boolean(v) ==
    CASE v.t = "string" -> v.s # ""
      [] v.t = "number" -> v.n # 0
      [] OTHER -> FALSE

Digit(d) ==
    CASE d = 0 -> "0" [] d = 1 -> "1" [] d = 2 -> "2" [] d = 3 -> "3" [] d = 4 -> "4"
      [] d = 5 -> "5" [] d = 6 -> "6" [] d = 7 -> "7" [] d = 8 -> "8" [] d = 9 -> "9"

\* String(n) for a non-negative integer
RECURSIVE NumToString(_)
NumToString(x) == IF x < 10 THEN Digit(x) ELSE NumToString(x \div 10) \o Digit(x % 10)

\* the string an array element contributes to Array.prototype.join
String(v) ==
    CASE v.t = "string" -> v.s
      [] v.t = "number" -> NumToString(v.n)
      [] OTHER -> ""

RECURSIVE join(_, _)
join(seq, sep) ==
    IF seq = <<>> THEN ""
    ELSE IF Len(seq) = 1 THEN String(seq[1])
    ELSE String(seq[1]) \o sep \o join(Tail(seq), sep)

createCacheKey(ps) == join(SelectSeq(ps, Boolean), ":")

\* String.prototype.toLowerCase on the queries of the model
toLowerCase(x) == CASE x = "Alien" -> "alien" [] OTHER -> x

\* the query string buildUrl produces from params: the name/value pairs whose
\* value is neither undefined nor null, values converted by String(value)
IsGiven(pv) == pv[2].t \notin {"undefined", "null"}
Pair(pv) == <<pv[1], String(pv[2])>>
RECURSIVE MapPairs(_)
MapPairs(seq) == IF seq = <<>> THEN <<>> ELSE <<Pair(Head(seq))>> \o MapPairs(Tail(seq))
urlParams(params) == MapPairs(SelectSeq(params, IsGiven))

\* what a public client method hands to fetchWithCache
Request(method, key, endpoint, params) ==
    [method |-> method, cacheKey |-> key, endpoint |-> endpoint, params |-> urlParams(params)]

DefaultAppend == "credits,videos,images,recommendations,similar"

\* options.appendToResponse || '<default>'
appendOf(opt) == IF Boolean(opt) THEN opt.s ELSE DefaultAppend

getMovieDetails(movieId, appendToResponse) ==
    Request("getMovieDetails",
            createCacheKey(<<Str("movie"), movieId, Str(appendOf(appendToResponse))>>),
            "/movie/" \o String(movieId),
            << <<"append_to_response", Str(appendOf(appendToResponse))>> >>)

getMovieCredits(movieId) ==
    Request("getMovieCredits",
            createCacheKey(<<Str("movie"), movieId, Str("credits")>>),
            "/movie/" \o String(movieId) \o "/credits",
            <<>>)

getMovieVideos(movieId) ==
    Request("getMovieVideos",
            createCacheKey(<<Str("movie"), movieId, Str("videos")>>),
            "/movie/" \o String(movieId) \o "/videos",
            <<>>)

getTvSeasonDetails(seriesId, seasonNumber) ==
    Request("getTvSeasonDetails",
            createCacheKey(<<Str("tv"), seriesId, Str("season"), seasonNumber>>),
            "/tv/" \o String(seriesId) \o "/season/" \o String(seasonNumber),
            << <<"append_to_response", Str("credits,images")>> >>)

getTvEpisodeDetails(seriesId, seasonNumber, episodeNumber) ==
    Request("getTvEpisodeDetails",
            createCacheKey(<<Str("tv"), seriesId, Str("season"), seasonNumber,
                             Str("episode"), episodeNumber>>),
            "/tv/" \o String(seriesId) \o "/season/" \o String(seasonNumber)
                \o "/episode/" \o String(episodeNumber),
            << <<"append_to_response", Str("credits,images")>> >>)

\* const { page = 1, year, region } = options
pageOf(page) == IF page.t = "undefined" THEN Num(1) ELSE page

searchMovies(query, page, year, region) ==
    Request("searchMovies",
            createCacheKey(<<Str("search"), Str("movie"), Str(toLowerCase(query)),
                             pageOf(page), year, region>>),
            "/search/movie",
            << <<"query", Str(query)>>, <<"page", pageOf(page)>>, <<"year", year>>,
               <<"region", region>> >>)

-----------------------------------------------------------------------------
(* The state after module load *)

Stored(k) == getItem(localStorage, STORAGE_PREFIX \o k)

NoRet == [op |-> "init", id |-> 0, key |-> "", value |-> "", n |-> 0]

CacheInit ==
    /\ now = 1
    /\ memoryCache = EmptyMap
    /\ localStorage = <<>>
    /\ timers = <<>>
    /\ inflight = {}
    /\ nextId = 1
    /\ readable = TRUE
    /\ ret = NoRet
    /\ lastSet = EmptyMap

KeyInit ==
    /\ parts = <<>>
    /\ cacheKey = ""
    /\ requests = {}

NoResponse == [status |-> 0, body |-> Undefined]
NoOut == [op |-> "none", arg |-> Undefined, threw |-> FALSE, value |-> Undefined, ready |-> FALSE]

ApiInit ==
    /\ apiKey = ""
    /\ isInitialized = FALSE
    /\ response = NoResponse
    /\ out = NoOut

ChatIdle ==
    [pc |-> "idle", message |-> Undefined, body |-> "", elapsed |-> 0,
     response |-> NoResponse, sent |-> 0]
NoReply ==
    [state |-> "none", value |-> Undefined, cause |-> "", message |-> Undefined,
     sent |-> 0, elapsed |-> 0, response |-> NoResponse]

ChatInit ==
    /\ chat = ChatIdle
    /\ reply = NoReply

NoUrl == [endpoint |-> "", params |-> <<>>, apiKey |-> "", built |-> [base |-> "", query |-> <<>>]]

UrlInit == url = NoUrl

\* a favourite as normalizeItem builds it, before any of its properties is known
NoEntry ==
    [id |-> Undefined, title |-> Undefined, poster_path |-> Undefined, overview |-> Undefined,
     release_date |-> Undefined, vote_average |-> Undefined, note |-> Undefined]
\* the last call of the storage manager: its arguments, the list it loaded,
\* whether it called save, and what it returned
NoFavOut ==
    [op |-> "none", id |-> Undefined, note |-> Undefined, before |-> <<>>, wrote |-> FALSE,
     list |-> <<>>, returnedNull |-> FALSE, entry |-> NoEntry, found |-> FALSE]

FavInit == favOut = NoFavOut

NoTimer == [armed |-> FALSE, q |-> "", remaining |-> 0]
\* closeDropdown: class hidden, innerHTML ''
Closed == [open |-> FALSE, content |-> "", list |-> {}, isLoadingMore |-> FALSE, hasMore |-> FALSE]

\* setupSearch has run; journal tells which page the navbar is on
NavInit(journal) ==
    /\ isJournal = journal
    /\ inputValue = ""
    /\ debounceTimer = NoTimer
    /\ queryToken = 0
    /\ currentQuery = ""
    /\ currentPage = 1
    /\ totalPages = 1
    /\ isLoadingMore = FALSE
    /\ resultsByKey = EmptyMap
    /\ dropdown = Closed
    /\ pending = {}
    /\ sinceInput = 0

Init == CacheInit /\ KeyInit /\ ApiInit /\ ChatInit /\ UrlInit /\ FavInit /\ NavInit(FALSE)

-----------------------------------------------------------------------------
(* Operations of the cache layer *)

Ret(op, id, key, value, n) == [op |-> op, id |-> id, key |-> key, value |-> value, n |-> n]

MarkCleared(ls) == [k \in DOMAIN ls |-> [ls[k] EXCEPT !.cleared = TRUE]]

\* setInCache: the memory write now, the persistent write as a queued timer callback
setInCache(mem, tms, t, key, data, ttl) ==
    [mem |-> setInMemoryCache(mem, t, key, data, ttl),
     timers |-> Append(tms, [key |-> key, data |-> data, ttl |-> ttl])]

\* a single-flight wrapper: a miss joins the request already in flight for the key
fetchWithCache_singleFlight(key, ttl) ==
    /\ nextId <= MaxCalls
    /\ LET g == getFromCache(memoryCache, localStorage, now, readable, key) IN
       /\ memoryCache' = g.mem
       /\ localStorage' = g.store
       /\ IF g.data # Null
          THEN /\ ret' = Ret("hit", nextId, key, g.data, g.reads)
               /\ inflight' = inflight
          ELSE IF \E c \in inflight : c.key = key
          THEN /\ ret' = Ret("joined", nextId, key, Null, g.reads)
               /\ inflight' = inflight
          ELSE /\ ret' = Ret("miss", nextId, key, Null, g.reads)
               /\ inflight' = inflight \cup {[id |-> nextId, key |-> key, ttl |-> ttl]}
    /\ nextId' = nextId + 1
    /\ UNCHANGED <<now, timers, readable, lastSet, keyVars, apiVars, chatVars, pageVars>>

\* fetchWithCache up to its first suspension: getFromCache, then either the
\* cached value is returned or the call awaits fetchFromApi
fetchWithCache(key, ttl) ==
    /\ nextId <= MaxCalls
    /\ LET g == getFromCache(memoryCache, localStorage, now, readable, key) IN
       /\ memoryCache' = g.mem
       /\ localStorage' = g.store
       /\ IF g.threw
          THEN /\ ret' = Ret("rejected", nextId, key, CacheError, g.reads)
               /\ inflight' = inflight
          ELSE IF g.data # Null
          THEN /\ ret' = Ret("hit", nextId, key, g.data, g.reads)
               /\ inflight' = inflight
          ELSE /\ ret' = Ret("miss", nextId, key, Null, g.reads)
               /\ inflight' = inflight \cup {[id |-> nextId, key |-> key, ttl |-> ttl]}
    /\ nextId' = nextId + 1
    /\ UNCHANGED <<now, timers, readable, lastSet, keyVars, apiVars, chatVars, pageVars>>

\* fetchFromApi resolved with a 2xx body: setInCache(cacheKey, data, ttl); return data
fetchFromApiResolves(c, data) ==
    /\ c \in inflight
    /\ LET w == setInCache(memoryCache, timers, now, c.key, data, c.ttl) IN
       /\ memoryCache' = w.mem
       /\ timers' = w.timers
    /\ inflight' = inflight \ {c}
    /\ ret' = Ret("resolved", c.id, c.key, data, c.ttl)
    /\ lastSet' = MapPut(lastSet, c.key,
                         [at |-> now, ttl |-> c.ttl, data |-> data, cleared |-> FALSE])
    /\ UNCHANGED <<now, localStorage, nextId, readable, keyVars, apiVars, chatVars, pageVars>>

\* a failed load that nevertheless stores something for the key
fetchFromApiRejects_caches(c, err) ==
    /\ c \in inflight
    /\ LET w == setInCache(memoryCache, timers, now, c.key, err, c.ttl) IN
       /\ memoryCache' = w.mem
       /\ timers' = w.timers
    /\ inflight' = inflight \ {c}
    /\ ret' = Ret("rejected", c.id, c.key, err, 0)
    /\ UNCHANGED <<now, localStorage, nextId, readable, lastSet, keyVars, apiVars, chatVars, pageVars>>

\* fetchFromApi threw (fetch rejected, or !response.ok): the error leaves fetchWithCache
fetchFromApiRejects(c, err) ==
    /\ c \in inflight
    /\ inflight' = inflight \ {c}
    /\ ret' = Ret("rejected", c.id, c.key, err, 0)
    /\ UNCHANGED <<now, memoryCache, localStorage, timers, nextId, readable, lastSet, keyVars, apiVars, chatVars, pageVars>>

\* the setTimeout callback of setInLocalStorage; setItem may throw (quota exceeded),
\* as may any access while the store is unreadable; the catch logs and returns
setInLocalStorageTimer(quotaExceeded) ==
    /\ timers # <<>>
    /\ LET w == Head(timers)
           entry == [data |-> w.data, timestamp |-> now, ttl |-> w.ttl]
       IN
       IF quotaExceeded \/ ~readable
       THEN /\ localStorage' = localStorage
            /\ ret' = Ret("writeFailed", 0, w.key, w.data, w.ttl)
       ELSE /\ localStorage' = setItem(localStorage, STORAGE_PREFIX \o w.key, JSONstringify(entry))
            /\ ret' = Ret("written", 0, w.key, w.data, w.ttl)
    /\ timers' = Tail(timers)
    /\ UNCHANGED <<now, memoryCache, inflight, nextId, readable, lastSet, keyVars, apiVars, chatVars, pageVars>>

\* memoryCache.clear(), then (unless memoryOnly) the index loop over localStorage,
\* which is outside any try: it throws while the store is inaccessible
clearAllCache(memoryOnly) ==
    /\ memoryCache' = EmptyMap
    /\ IF memoryOnly
       THEN /\ localStorage' = localStorage
            /\ ret' = Ret("clearMemory", 0, "", "", 0)
       ELSE IF ~readable
       THEN /\ localStorage' = localStorage
            /\ ret' = Ret("clearThrew", 0, "", "", 0)
       ELSE /\ localStorage' = clearPrefixed(localStorage)
            /\ ret' = Ret("clearAll", 0, "", "", Len(keysToRemove(localStorage, 0)))
    /\ lastSet' = MarkCleared(lastSet)
    /\ UNCHANGED <<now, timers, inflight, nextId, readable, keyVars, apiVars, chatVars, pageVars>>

-----------------------------------------------------------------------------
(* The environment *)

\* page reload: module state is rebuilt, pending timers and requests are gone,
\* localStorage survives; whether the page may access localStorage (browser
\* settings) is fixed for the lifetime of the page
Reload(access) ==
    /\ memoryCache' = EmptyMap
    /\ timers' = <<>>
    /\ inflight' = {}
    /\ readable' = access
    /\ ret' = Ret("reload", 0, "", "", 0)
    /\ lastSet' = MarkCleared(lastSet)
    /\ UNCHANGED <<now, localStorage, nextId, keyVars, apiVars, chatVars, pageVars>>

Tick ==
    /\ now < MaxTime
    /\ now' = now + 1
    /\ UNCHANGED <<memoryCache, localStorage, timers, inflight, nextId, readable, ret, lastSet, keyVars, apiVars, chatVars, pageVars>>

\* something outside the client replaces a stored cache entry by a string that is
\* not JSON
StorageCorrupted(key) ==
    /\ Stored(key).tag = "json"
    /\ localStorage' = setItem(localStorage, STORAGE_PREFIX \o key, Malformed)
    /\ ret' = Ret("corrupted", 0, key, "", 0)
    /\ UNCHANGED <<now, memoryCache, timers, inflight, nextId, readable, lastSet, keyVars, apiVars, chatVars, pageVars>>

\* storage-manager save(list): the favourites list under KEY
save(v) ==
    /\ localStorage' = setItem(localStorage, KEY, v)
    /\ ret' = Ret("save", 0, KEY, v.data, 0)
    /\ UNCHANGED <<now, memoryCache, timers, inflight, nextId, readable, lastSet, keyVars, apiVars, chatVars, pageVars>>

CacheNext ==
    \/ \E cs \in CallSites : fetchWithCache(cs.key, cs.ttl)
    \/ \E c \in inflight, d \in Payloads : fetchFromApiResolves(c, d)
    \/ \E c \in inflight, e \in Errors : fetchFromApiRejects(c, e)
    \/ \E q \in BOOLEAN : setInLocalStorageTimer(q)
    \/ \E m \in BOOLEAN : clearAllCache(m)
    \/ Tick

\* the client and the favourites manager on a working localStorage
Next ==
    \/ CacheNext
    \/ Reload(TRUE)
    \/ \E v \in FavValues : save(v)

Spec == Init /\ [][Next]_vars

\* the client on a localStorage that may hold foreign strings and may be inaccessible
FaultNext ==
    \/ CacheNext
    \/ \E access \in BOOLEAN : Reload(access)
    \/ \E k \in Keys : StorageCorrupted(k)

FaultSpec == Init /\ [][FaultNext]_vars

\* the client on a page that makes one call more than Spec allows (a get between
\* two sets and their deferred writes takes a third call)
ConvergeInit ==
    /\ now = 1
    /\ memoryCache = EmptyMap
    /\ localStorage = <<>>
    /\ timers = <<>>
    /\ inflight = {}
    /\ nextId = 0
    /\ readable = TRUE
    /\ ret = NoRet
    /\ lastSet = EmptyMap
    /\ KeyInit /\ ApiInit /\ ChatInit /\ UrlInit /\ FavInit /\ NavInit(FALSE)

ConvergeSpec == ConvergeInit /\ [][CacheNext]_vars

-----------------------------------------------------------------------------
(* Key construction on its own: createCacheKey applied to argument lists, and
   the cache keys of the public client methods *)

MaxParts == 3
MaxRequests == 2

Components ==
    {Str("movie"), Str("tv"), Str("season"), Str("videos"),
     Num(550), Num(551), Num(0), Undefined, JsNull}

RECURSIVE SeqsUpTo(_, _)
SeqsUpTo(S, n) ==
    IF n = 0 THEN {<<>>}
    ELSE SeqsUpTo(S, n - 1) \cup {Append(q, x) : q \in SeqsUpTo(S, n - 1), x \in S}

callCreateCacheKey(ps) ==
    /\ parts' = ps
    /\ cacheKey' = createCacheKey(ps)
    /\ UNCHANGED <<requests, cacheVars, apiVars, chatVars, pageVars>>

KeyNext == \E ps \in SeqsUpTo(Components, MaxParts) : callCreateCacheKey(ps)

KeySpec == Init /\ [][KeyNext]_vars

MovieIds == {Num(550), Num(551)}
Appends == {Undefined, Str("credits"), Str("videos")}
SeasonNumbers == {Num(0), Num(1)}
Queries == {"alien", "Alien", "aliens"}
Pages == {Undefined, Num(1), Num(2)}
Years == {Undefined, Num(2020)}
Regions == {Undefined, Str("US")}

ClientCalls ==
    {getMovieDetails(m, a) : m \in MovieIds, a \in Appends}
    \cup {getMovieCredits(m) : m \in MovieIds}
    \cup {getMovieVideos(m) : m \in MovieIds}
    \cup {getTvSeasonDetails(Num(1399), sn) : sn \in SeasonNumbers}
    \cup {getTvEpisodeDetails(Num(1399), sn, e) : sn \in SeasonNumbers, e \in SeasonNumbers}
    \cup UNION {{searchMovies(q, pg, y, r) : q \in Queries, pg \in Pages} : y \in Years, r \in Regions}

\* a public client method is called: its request reaches fetchWithCache
clientCall(rq) ==
    /\ Cardinality(requests) < MaxRequests
    /\ requests' = requests \cup {rq}
    /\ UNCHANGED <<parts, cacheKey, cacheVars, apiVars, chatVars, pageVars>>

CallNext == \E rq \in ClientCalls : clientCall(rq)

CallSpec == Init /\ [][CallNext]_vars

-----------------------------------------------------------------------------
(* JavaScript values of HTTP bodies and errors.  A decoded JSON body is an object
   (of which only the properties status_message and response are read), the JSON
   value null, or a primitive; Unparsable is a body on which response.json()
   rejects. *)

JsObject(status_message, resp) ==
    [t |-> "object", status_message |-> status_message, response |-> resp]
Unparsable == [t |-> "unparsable", s |-> "", n |-> 0]
Err(name, message) == [t |-> "error", name |-> name, message |-> message]

\* response.ok
ok(r) == r.status >= 200 /\ r.status <= 299

\* reading a property: of null or undefined it throws a TypeError, of a
\* primitive it yields undefined
PropThrows(v) == v.t \in {"null", "undefined"}
Prop(v, name) ==
    IF v.t # "object" THEN Undefined
    ELSE IF name = "status_message" THEN v.status_message
    ELSE v.response

-----------------------------------------------------------------------------
(* The TMDB client's initialisation and its fetch primitive *)

Out(op, arg, threw, value, ready) ==
    [op |-> op, arg |-> arg, threw |-> threw, value |-> value, ready |-> ready]

\* an initialize that stores the key before it validates it
initialize_assignsFirst(key) ==
    /\ apiKey' = String(key)
    /\ isInitialized' = TRUE
    /\ IF ~Boolean(key) \/ key.t # "string"
       THEN out' = Out("initialize", key, TRUE,
                       Err("Error", "[TMDB Client] API key is required for initialization"), FALSE)
       ELSE out' = Out("initialize", key, FALSE, Undefined, FALSE)
    /\ UNCHANGED <<response, cacheVars, keyVars, chatVars, pageVars>>

initialize(key) ==
    /\ IF ~Boolean(key) \/ key.t # "string"
       THEN /\ out' = Out("initialize", key, TRUE,
                          Err("Error", "[TMDB Client] API key is required for initialization"), FALSE)
            /\ UNCHANGED <<apiKey, isInitialized>>
       ELSE /\ apiKey' = key.s
            /\ isInitialized' = TRUE
            /\ out' = Out("initialize", key, FALSE, Undefined, FALSE)
    /\ UNCHANGED <<response, cacheVars, keyVars, chatVars, pageVars>>

isReady ==
    /\ out' = Out("isReady", Undefined, FALSE, Undefined, isInitialized)
    /\ UNCHANGED <<apiKey, isInitialized, response, cacheVars, keyVars, chatVars, pageVars>>

\* fetchFromApi once fetch(url) has resolved with response r: what it throws or
\* returns
fetchFromApi(r) ==
    IF ~ok(r)
    THEN LET errorBody == IF r.body = Unparsable THEN JsObject(Undefined, Undefined) ELSE r.body IN
         IF PropThrows(errorBody)
         THEN [threw |-> TRUE,
               value |-> Err("TypeError", "Cannot read properties of null (reading 'status_message')")]
         ELSE LET status_message == Prop(errorBody, "status_message")
                  message == IF Boolean(status_message) THEN String(status_message)
                             ELSE "HTTP " \o NumToString(r.status)
              IN [threw |-> TRUE, value |-> Err("Error", "[TMDB API Error] " \o message)]
    ELSE IF r.body = Unparsable
    THEN [threw |-> TRUE, value |-> Err("SyntaxError", "Unexpected token")]
    ELSE [threw |-> FALSE, value |-> r.body]

fetchFromApiCall(r) ==
    /\ response' = r
    /\ out' = Out("fetchFromApi", Undefined, fetchFromApi(r).threw, fetchFromApi(r).value, FALSE)
    /\ UNCHANGED <<apiKey, isInitialized, cacheVars, keyVars, chatVars, pageVars>>

InitKeys == {Undefined, JsNull, Str(""), Num(42), Str("k1"), Str("k2")}
Statuses == {200, 401, 404, 500}
ApiBodies ==
    {JsObject(Str("Invalid API key: You must be granted a valid key."), Undefined),
     JsObject(Str(""), Undefined), JsObject(Undefined, Undefined),
     JsNull, Num(5), Unparsable}
ApiResponses == {[status |-> st, body |-> b] : st \in Statuses, b \in ApiBodies}

ApiNext ==
    \/ \E key \in InitKeys : initialize(key)
    \/ isReady
    \/ \E r \in ApiResponses : fetchFromApiCall(r)

ApiSpec == Init /\ [][ApiNext]_vars

-----------------------------------------------------------------------------
(* buildUrl.  The query string of a URL is the list of name/value pairs of its
   URLSearchParams; params is the list of the caller's own properties, in
   Object.entries order. *)

BASE_URL == "https://api.themoviedb.org/3"
DEFAULT_LANGUAGE == "en-US"

HasName(q, name) == \E i \in 1..Len(q) : q[i][1] = name
FirstOf(q, name) == CHOOSE i \in 1..Len(q) : q[i][1] = name /\ \A j \in 1..(i - 1) : q[j][1] # name

\* the entries of q after index i whose name is not name
RECURSIVE OthersAfter(_, _, _)
OthersAfter(q, i, name) ==
    IF i >= Len(q) THEN <<>>
    ELSE IF q[i + 1][1] = name THEN OthersAfter(q, i + 1, name)
    ELSE <<q[i + 1]>> \o OthersAfter(q, i + 1, name)

\* URLSearchParams.set: the first pair of that name gets the value and the other
\* pairs of that name are removed; without such a pair, one is appended
searchParamsSet(q, name, value) ==
    IF HasName(q, name)
    THEN SubSeq(q, 1, FirstOf(q, name) - 1) \o << <<name, value>> >>
            \o OthersAfter(q, FirstOf(q, name), name)
    ELSE Append(q, <<name, value>>)

\* params.language (undefined when params has no such property)
propertyOf(params, name) ==
    IF HasName(params, name) THEN params[FirstOf(params, name)][2] ELSE Undefined

\* Object.entries(params).forEach(...): every value that is neither undefined nor
\* null is set, as a string
RECURSIVE setEach(_, _)
setEach(q, entries) ==
    IF entries = <<>> THEN q
    ELSE IF IsGiven(Head(entries))
    THEN setEach(searchParamsSet(q, Head(entries)[1], String(Head(entries)[2])), Tail(entries))
    ELSE setEach(q, Tail(entries))

buildUrl_defaultLast(key, endpoint, params) ==
    LET q1 == searchParamsSet(<<>>, "api_key", key)
    IN [base |-> BASE_URL \o endpoint,
        query |-> searchParamsSet(setEach(q1, params), "language", DEFAULT_LANGUAGE)]

\* buildUrl(endpoint, params), with the module's apiKey as key
buildUrl(key, endpoint, params) ==
    LET q1 == searchParamsSet(<<>>, "api_key", key)
        q2 == IF ~Boolean(propertyOf(params, "language"))
              THEN searchParamsSet(q1, "language", DEFAULT_LANGUAGE)
              ELSE q1
    IN [base |-> BASE_URL \o endpoint, query |-> setEach(q2, params)]

buildUrlCall(endpoint, params) ==
    /\ url' = [endpoint |-> endpoint, params |-> params, apiKey |-> apiKey,
               built |-> buildUrl(apiKey, endpoint, params)]
    /\ UNCHANGED <<cacheVars, keyVars, apiVars, chatVars, favVars, navVars>>

\* the caller's params: each property absent, undefined, null or given
LanguageParams ==
    {<<>>, << <<"language", Undefined>> >>, << <<"language", JsNull>> >>,
     << <<"language", Str("")>> >>, << <<"language", Str("de-DE")>> >>}
PageParams == {<<>>, << <<"page", Undefined>> >>, << <<"page", Num(2)>> >>}
RegionParams == {<<>>, << <<"region", JsNull>> >>, << <<"region", Str("US")>> >>}
UrlParams ==
    {l \o pg \o r : l \in LanguageParams, pg \in PageParams, r \in RegionParams}
    \cup {pg \o r \o l : l \in LanguageParams, pg \in PageParams, r \in RegionParams}
Endpoints == {"/movie/550", "/search/movie"}

UrlNext ==
    \/ \E key \in InitKeys : initialize(key)
    \/ \E e \in Endpoints, ps \in UrlParams : buildUrlCall(e, ps)

UrlSpec == Init /\ [][UrlNext]_vars

-----------------------------------------------------------------------------
(* The storage manager: favourites and their notes under KEY *)

\* the longest favourites list of the model
MaxFavourites == 3

NaN == [t |-> "nan", s |-> "", n |-> 0]

\* a === b
StrictEquals(a, b) == a.t # "nan" /\ a = b
\* a || b
Or(a, b) == IF Boolean(a) THEN a ELSE b
\* a ?? b
Nullish(a, b) == IF a.t \in {"undefined", "null"} THEN b ELSE a

\* JSON.stringify of a property value, as JSON.parse reads it back: NaN is written
\* as null, an undefined property is left called (and then reads as undefined)
JSONvalue(v) == IF v.t = "nan" THEN JsNull ELSE v
JSONobject(e) == [f \in DOMAIN e |-> JSONvalue(e[f])]
\* JSON.stringify(list): the string stored under KEY
JSONstringifyList(list) ==
    [tag |-> "favs", data |-> "", timestamp |-> 0, ttl |-> 0,
     list |-> [i \in 1..Len(list) |-> JSONobject(list[i])]]

\* load(): the parsed array; [] when nothing is stored, when JSON.parse throws and
\* when the stored value is not an array
load(store) ==
    LET raw == getItem(store, KEY)
    IN IF raw.tag = "favs" THEN raw.list ELSE <<>>

normalizeItem(item) ==
    [id |-> item.id,
     title |-> Or(Or(item.title, item.name), Str("")),
     poster_path |-> Or(item.poster_path, JsNull),
     overview |-> Or(item.overview, Str("")),
     release_date |-> Or(Or(item.release_date, item.first_air_date), Str("")),
     vote_average |-> Nullish(item.vote_average, JsNull),
     note |-> Or(item.note, Str(""))]

\* list.some((m) => m.id === id)
some(list, id) == \E i \in 1..Len(list) : StrictEquals(list[i].id, id)
\* list.findIndex((m) => m.id === id)
findIndex(list, id) ==
    IF some(list, id)
    THEN CHOOSE i \in 1..Len(list) :
            StrictEquals(list[i].id, id) /\ \A j \in 1..(i - 1) : ~StrictEquals(list[j].id, id)
    ELSE -1
\* list.filter((m) => m.id !== id)
filterOut(list, id) == SelectSeq(list, LAMBDA m : ~StrictEquals(m.id, id))

isFavourite(store, id) == some(load(store), id)

IsObject(item) == "id" \in DOMAIN item

getFavourites ==
    /\ favOut' = [NoFavOut EXCEPT !.op = "getFavourites", !.before = load(localStorage),
                                  !.list = load(localStorage)]
    /\ UNCHANGED <<cacheVars, keyVars, apiVars, chatVars, urlVars, navVars>>

isFavouriteCall(id) ==
    /\ favOut' = [NoFavOut EXCEPT !.op = "isFavourite", !.id = id, !.before = load(localStorage),
                                  !.found = isFavourite(localStorage, id)]
    /\ UNCHANGED <<cacheVars, keyVars, apiVars, chatVars, urlVars, navVars>>

addFavourite(item) ==
    LET list == load(localStorage)
        called == [NoFavOut EXCEPT !.op = "addFavourite", !.before = list]
    IN
    /\ Len(list) < MaxFavourites
    /\ IF ~IsObject(item)
       THEN /\ favOut' = [called EXCEPT !.list = list]
            /\ UNCHANGED localStorage
       ELSE IF item.id = Undefined \/ item.id = JsNull
       THEN /\ favOut' = [called EXCEPT !.id = item.id, !.list = list]
            /\ UNCHANGED localStorage
       ELSE IF some(list, item.id)
       THEN /\ favOut' = [called EXCEPT !.id = item.id, !.list = list]
            /\ UNCHANGED localStorage
       ELSE LET minimal == normalizeItem(item)
                next == <<minimal>> \o list
            IN /\ localStorage' = setItem(localStorage, KEY, JSONstringifyList(next))
               /\ favOut' = [called EXCEPT !.id = item.id, !.wrote = TRUE, !.list = next,
                                        !.entry = minimal]
    /\ UNCHANGED <<now, memoryCache, timers, inflight, nextId, readable, ret, lastSet,
                   keyVars, apiVars, chatVars, urlVars, navVars>>

removeFavourite(id) ==
    LET list == load(localStorage)
        next == filterOut(list, id)
    IN
    /\ localStorage' = setItem(localStorage, KEY, JSONstringifyList(next))
    /\ favOut' = [NoFavOut EXCEPT !.op = "removeFavourite", !.id = id, !.before = list,
                                  !.wrote = TRUE, !.list = next]
    /\ UNCHANGED <<now, memoryCache, timers, inflight, nextId, readable, ret, lastSet,
                   keyVars, apiVars, chatVars, urlVars, navVars>>

setNote_toFront(id, note) ==
    LET list == load(localStorage)
        idx == findIndex(list, id)
        called == [NoFavOut EXCEPT !.op = "setNote", !.id = id, !.note = note, !.before = list]
    IN
    /\ IF idx = -1
       THEN /\ favOut' = [called EXCEPT !.returnedNull = TRUE]
            /\ UNCHANGED localStorage
       ELSE LET changed == [list[idx] EXCEPT !.note = Or(note, Str(""))]
                next == <<changed>> \o SubSeq(list, 1, idx - 1) \o SubSeq(list, idx + 1, Len(list))
            IN /\ localStorage' = setItem(localStorage, KEY, JSONstringifyList(next))
               /\ favOut' = [called EXCEPT !.wrote = TRUE, !.list = next, !.entry = changed]
    /\ UNCHANGED <<now, memoryCache, timers, inflight, nextId, readable, ret, lastSet,
                   keyVars, apiVars, chatVars, urlVars, navVars>>

setNote(id, note) ==
    LET list == load(localStorage)
        idx == findIndex(list, id)
        called == [NoFavOut EXCEPT !.op = "setNote", !.id = id, !.note = note, !.before = list]
    IN
    /\ IF idx = -1
       THEN /\ favOut' = [called EXCEPT !.returnedNull = TRUE]
            /\ UNCHANGED localStorage
       ELSE LET next == [list EXCEPT ![idx].note = Or(note, Str(""))]
            IN /\ localStorage' = setItem(localStorage, KEY, JSONstringifyList(next))
               /\ favOut' = [called EXCEPT !.wrote = TRUE, !.list = next, !.entry = next[idx]]
    /\ UNCHANGED <<now, memoryCache, timers, inflight, nextId, readable, ret, lastSet,
                   keyVars, apiVars, chatVars, urlVars, navVars>>

\* what the pages pass: the id of a TMDB result, or parseInt of a card's data-id,
\* which is NaN for a card without a numeric data-id
Item(id, title, name) ==
    [id |-> id, title |-> title, name |-> name, poster_path |-> JsNull, overview |-> Str(""),
     release_date |-> Str(""), first_air_date |-> Str("2017"), vote_average |-> Num(8),
     note |-> Undefined]
Items ==
    {Item(Num(1), Str("Alien"), Undefined), Item(Num(2), Undefined, Str("Dark")),
     Item(NaN, Undefined, Str("Unknown")), Item(Undefined, Str("Alien"), Undefined),
     Item(JsNull, Str("Alien"), Undefined)}
FavIds == {Num(1), Num(2), NaN, JsNull}
Notes == {Undefined, Str("great")}

FavNext ==
    \/ getFavourites
    \/ \E id \in FavIds : isFavouriteCall(id)
    \/ \E item \in Items : addFavourite(item)
    \/ addFavourite(Undefined)
    \/ \E id \in FavIds : removeFavourite(id)
    \/ \E id \in FavIds, note \in Notes : setNote(id, note)

FavSpec == Init /\ [][FavNext]_vars

-----------------------------------------------------------------------------
(* The chat bridge: sendMessage *)

TIMEOUT_MS == 30000
\* the clock of a pending request advances in steps of this many milliseconds
ClockStep == 10000

PleaseEnter == "Please enter a message."
TooLong == "Message is too long. Please keep it under 1000 characters."
HttpErrorText == "Sorry, I encountered an error. Please try again."
NoValidResponse == "Sorry, I did not receive a valid response."
TimedOutText == "Request timed out. Please try again."
NoConnectionText == "Sorry, I could not connect to the server. Please check your connection."

\* String.prototype.trim
IsSpace(c) == c \in {" ", "\n", "\t"}
RECURSIVE trimStart(_)
trimStart(x) ==
    IF x # "" /\ IsSpace(SubSeq(x, 1, 1)) THEN trimStart(SubSeq(x, 2, Len(x))) ELSE x
RECURSIVE trimEnd(_)
trimEnd(x) ==
    IF x # "" /\ IsSpace(SubSeq(x, Len(x), Len(x))) THEN trimEnd(SubSeq(x, 1, Len(x) - 1)) ELSE x
trim(x) == trimEnd(trimStart(x))

\* String.prototype.repeat
RECURSIVE Rep(_, _)
Rep(x, count) ==
    IF count = 0 THEN ""
    ELSE IF count % 2 = 0 THEN LET h == Rep(x, count \div 2) IN h \o h
    ELSE x \o Rep(x, count - 1)


\* the promise of the call in progress resolves with value
Resolve(value, cause) ==
    [state |-> "resolved", value |-> value, cause |-> cause, message |-> chat.message,
     sent |-> chat.sent, elapsed |-> chat.elapsed, response |-> chat.response]

\* sendMessage up to its first suspension: the validation returns, or the POST is
\* issued and the abort timer armed
sendMessage(message) ==
    /\ chat.pc = "idle"
    /\ IF ~Boolean(message) \/ message.t # "string"
       THEN /\ chat' = ChatIdle
            /\ reply' = [NoReply EXCEPT !.state = "resolved", !.value = Str(PleaseEnter),
                                        !.cause = "validation", !.message = message]
       ELSE LET trimmedMessage == trim(message.s) IN
            IF Len(trimmedMessage) = 0
            THEN /\ chat' = ChatIdle
                 /\ reply' = [NoReply EXCEPT !.state = "resolved", !.value = Str(PleaseEnter),
                                             !.cause = "validation", !.message = message]
            ELSE IF Len(trimmedMessage) > 1000
            THEN /\ chat' = ChatIdle
                 /\ reply' = [NoReply EXCEPT !.state = "resolved", !.value = Str(TooLong),
                                             !.cause = "validation", !.message = message]
            ELSE /\ chat' = [pc |-> "fetch", message |-> message, body |-> trimmedMessage,
                             elapsed |-> 0, response |-> NoResponse, sent |-> 1]
                 /\ reply' = [NoReply EXCEPT !.state = "pending", !.message = message, !.sent = 1]
    /\ UNCHANGED <<cacheVars, keyVars, apiVars, pageVars>>

\* fetch resolved with response r: clearTimeout; !response.ok returns the error
\* text, otherwise the call awaits response.json()
sendMessageFetchResolves(r) ==
    /\ chat.pc = "fetch"
    /\ IF ~ok(r)
       THEN /\ reply' = [Resolve(Str(HttpErrorText), "http") EXCEPT !.response = r]
            /\ chat' = ChatIdle
       ELSE /\ chat' = [chat EXCEPT !.pc = "json", !.response = r]
            /\ reply' = reply
    /\ UNCHANGED <<cacheVars, keyVars, apiVars, pageVars>>

\* fetch rejected with a transport error (not an AbortError)
sendMessageFetchRejects ==
    /\ chat.pc = "fetch"
    /\ reply' = Resolve(Str(NoConnectionText), "transport")
    /\ chat' = ChatIdle
    /\ UNCHANGED <<cacheVars, keyVars, apiVars, pageVars>>

\* the abort timer fired: controller.abort() rejects the fetch with an AbortError
sendMessageAbort ==
    /\ chat.pc = "fetch"
    /\ chat.elapsed >= TIMEOUT_MS
    /\ reply' = Resolve(Str(TimedOutText), "timeout")
    /\ chat' = ChatIdle
    /\ UNCHANGED <<cacheVars, keyVars, apiVars, pageVars>>

\* response.json() settled: a rejection and a TypeError on data.response end in
\* the catch; otherwise data.response || '<fallback>' is returned as it is
sendMessageJson ==
    /\ chat.pc = "json"
    /\ LET data == chat.response.body IN
       IF data = Unparsable \/ PropThrows(data)
       THEN reply' = Resolve(Str(NoConnectionText), "json")
       ELSE IF Boolean(Prop(data, "response"))
       THEN reply' = Resolve(Prop(data, "response"), "ok")
       ELSE reply' = Resolve(Str(NoValidResponse), "ok")
    /\ chat' = ChatIdle
    /\ UNCHANGED <<cacheVars, keyVars, apiVars, pageVars>>

\* time passes while the call is suspended
sendMessageTick ==
    /\ chat.pc \in {"fetch", "json"}
    /\ chat.elapsed < TIMEOUT_MS
    /\ chat' = [chat EXCEPT !.elapsed = chat.elapsed + ClockStep]
    /\ UNCHANGED <<reply, cacheVars, keyVars, apiVars, pageVars>>

ChatMessages ==
    {Undefined, JsNull, Num(42), Str(""), Str("  \n"), Str("hi"), Str(" hi\n"),
     Str(Rep("a", 1000)), Str(" " \o Rep("a", 1000) \o "\t"),
     Str(Rep("a", 1001)), Str(" " \o Rep("a", 1001))}
ChatBodies ==
    {JsObject(Undefined, Str("Hello!")), JsObject(Undefined, Str("")),
     JsObject(Undefined, Undefined), JsObject(Undefined, Num(42)),
     JsNull, Num(5), Unparsable}
ChatResponses == {[status |-> st, body |-> b] : st \in {200, 500}, b \in ChatBodies}

ChatNext ==
    \/ \E message \in ChatMessages : sendMessage(message)
    \/ \E r \in ChatResponses : sendMessageFetchResolves(r)
    \/ sendMessageFetchRejects
    \/ sendMessageAbort
    \/ sendMessageJson
    \/ sendMessageTick

ChatSpec == Init /\ [][ChatNext]_vars

-----------------------------------------------------------------------------
(* The navbar search (setupSearch): the debounced input handler, the local search
   of the journal page, and the paged TMDB search of the home page.  A search
   result is a record of its media type, id and title; the dropdown is what its
   last render left in it. *)

minChars == 1
debounceMs == 250
maxPages == 10

\* how far the clock moves in one step while a debounce timer runs
NavClockStep == 125
\* requests the model lets the page issue, and lets be in flight at once
MaxToken == 11
MaxPending == 2

Min(a, b) == IF a < b THEN a ELSE b

\* String.prototype.includes
includes(x, sub) ==
    \E i \in 1..(Len(x) - Len(sub) + 1) : SubSeq(x, i, i + Len(sub) - 1) = sub

\* item.prop of a parsed object: undefined for a property the object lacks
PropertyOr(obj, prop) == IF prop \in DOMAIN obj THEN obj[prop] ELSE Undefined
\* Number(v)
NumberOf(v) == IF v.t = "number" THEN v.n ELSE 0

keyOf(item) == item.mediaType \o ":" \o NumToString(item.id)

normalizeTmdbResult(r) ==
    [mediaType |-> IF r.media_type = "tv" THEN "tv" ELSE "movie",
     id |-> r.id,
     title |-> String(Or(Or(PropertyOr(r, "title"), PropertyOr(r, "name")), Str("Unknown")))]

normalizeFavourite(f) ==
    [mediaType |-> IF Boolean(PropertyOr(f, "first_air_date")) THEN "tv" ELSE "movie",
     id |-> NumberOf(f.id),
     title |-> String(Or(Or(PropertyOr(f, "title"), PropertyOr(f, "name")), Str("Unknown")))]

\* results.map(normalizeTmdbResult) and favourites.map(normalizeFavourite)
RECURSIVE mapTmdbResults(_)
mapTmdbResults(seq) ==
    IF seq = <<>> THEN <<>> ELSE <<normalizeTmdbResult(Head(seq))>> \o mapTmdbResults(Tail(seq))
RECURSIVE mapFavourites(_)
mapFavourites(seq) ==
    IF seq = <<>> THEN <<>> ELSE <<normalizeFavourite(Head(seq))>> \o mapFavourites(Tail(seq))

\* items.forEach((item) => resultsByKey.set(keyOf(item), item))
RECURSIVE mergeResults(_, _)
mergeResults(results, items) ==
    IF items = <<>> THEN results
    ELSE mergeResults(MapPut(results, keyOf(Head(items)), Head(items)), Tail(items))

hasMore(journal, query, page, total) ==
    ~journal /\ query # "" /\ page < total /\ page < maxPages

\* the render functions: each sets innerHTML and opens the dropdown
renderLoading == [Closed EXCEPT !.open = TRUE, !.content = "loading"]
renderError == [Closed EXCEPT !.open = TRUE, !.content = "error"]
renderUnavailable == [Closed EXCEPT !.open = TRUE, !.content = "unavailable"]
renderEmpty == [Closed EXCEPT !.open = TRUE, !.content = "empty"]
renderResultsList(results, loading, more) ==
    [open |-> TRUE, content |-> "results", list |-> DOMAIN results,
     isLoadingMore |-> loading, hasMore |-> more]

\* the input handler
input(v) ==
    LET q == trim(v) IN
    /\ inputValue' = v
    /\ sinceInput' = 0
    /\ IF Len(q) < minChars
       THEN /\ currentQuery' = ""
            /\ currentPage' = 1
            /\ totalPages' = 1
            /\ isLoadingMore' = FALSE
            /\ resultsByKey' = EmptyMap
            /\ dropdown' = Closed
            /\ UNCHANGED debounceTimer
       ELSE /\ debounceTimer' = [armed |-> TRUE, q |-> q, remaining |-> debounceMs]
            /\ UNCHANGED <<currentQuery, currentPage, totalPages, isLoadingMore, resultsByKey,
                           dropdown>>
    /\ UNCHANGED <<isJournal, queryToken, pending, cacheVars, keyVars, apiVars, chatVars,
                   urlVars, favVars>>

\* time passes while the debounce timer runs
NavTick ==
    /\ debounceTimer.armed
    /\ debounceTimer.remaining > 0
    /\ LET step == Min(NavClockStep, debounceTimer.remaining) IN
       /\ debounceTimer' = [debounceTimer EXCEPT !.remaining = @ - step]
       /\ sinceInput' = sinceInput + step
    /\ UNCHANGED <<isJournal, inputValue, queryToken, currentQuery, currentPage, totalPages,
                   isLoadingMore, resultsByKey, dropdown, pending, cacheVars, keyVars,
                   apiVars, chatVars, urlVars, favVars>>

\* the debounce callback on the journal page: runFavouritesSearch(q)
runFavouritesSearch ==
    LET q == debounceTimer.q
        favs == mapFavourites(load(localStorage))
        query == toLowerCase(trim(q))
        filtered == SelectSeq(favs, LAMBDA f : includes(toLowerCase(f.title), query))
    IN
    /\ debounceTimer.armed
    /\ debounceTimer.remaining = 0
    /\ isJournal
    /\ debounceTimer' = [debounceTimer EXCEPT !.armed = FALSE]
    /\ currentQuery' = ""
    /\ currentPage' = 1
    /\ totalPages' = 1
    /\ isLoadingMore' = FALSE
    /\ resultsByKey' = mergeResults(EmptyMap, filtered)
    /\ dropdown' = IF Len(filtered) = 0 THEN renderEmpty
                   ELSE renderResultsList(mergeResults(EmptyMap, filtered), FALSE, FALSE)
    /\ UNCHANGED <<isJournal, inputValue, queryToken, pending, sinceInput, cacheVars, keyVars,
                   apiVars, chatVars, urlVars, favVars>>

\* the debounce callback on the home page: startTmdbSearch(q), up to the await in
\* fetchPage
startTmdbSearch ==
    LET query == debounceTimer.q
        token == queryToken + 1
    IN
    /\ debounceTimer.armed
    /\ debounceTimer.remaining = 0
    /\ ~isJournal
    /\ queryToken < MaxToken
    /\ Cardinality(pending) < MaxPending
    /\ debounceTimer' = [debounceTimer EXCEPT !.armed = FALSE]
    /\ queryToken' = token
    /\ currentQuery' = query
    /\ currentPage' = 1
    /\ totalPages' = 1
    /\ isLoadingMore' = FALSE
    /\ resultsByKey' = EmptyMap
    /\ IF ~isInitialized
       THEN /\ dropdown' = renderUnavailable
            /\ UNCHANGED pending
       ELSE /\ dropdown' = renderLoading
            /\ pending' = pending \cup
                  {[query |-> query, page |-> 1, token |-> token, mode |-> "first"]}
    /\ UNCHANGED <<isJournal, inputValue, sinceInput, cacheVars, keyVars, apiVars, chatVars,
                   urlVars, favVars>>

\* the scroll handler near the end of the list: loadMore(), up to the await in
\* fetchPage
loadMore ==
    LET token == queryToken + 1 IN
    /\ hasMore(isJournal, currentQuery, currentPage, totalPages)
    /\ ~isLoadingMore
    /\ queryToken < MaxToken
    /\ Cardinality(pending) < MaxPending
    /\ queryToken' = token
    /\ IF ~isInitialized
       THEN /\ isLoadingMore' = FALSE
            /\ dropdown' = renderResultsList(resultsByKey, FALSE,
                               hasMore(isJournal, currentQuery, currentPage, totalPages))
            /\ UNCHANGED pending
       ELSE /\ isLoadingMore' = TRUE
            /\ dropdown' = renderResultsList(resultsByKey, TRUE, TRUE)
            /\ pending' = pending \cup
                  {[query |-> currentQuery, page |-> currentPage + 1, token |-> token,
                    mode |-> "more"]}
    /\ UNCHANGED <<isJournal, inputValue, debounceTimer, currentQuery, currentPage, totalPages,
                   resultsByKey, sinceInput, cacheVars, keyVars, apiVars, chatVars, urlVars,
                   favVars>>

\* searchMulti resolves with res for the suspended fetchPage call p: the rest of
\* fetchPage and, for a call made by loadMore, the rest of loadMore
searchMultiResolves(p, res) ==
    LET stale == p.token # queryToken
        normalized == mapTmdbResults(
                         SelectSeq(res.results, LAMBDA r : r.media_type \in {"movie", "tv"}))
        total == IF stale THEN totalPages ELSE NumberOf(Or(res.total_pages, Num(1)))
        page == IF stale THEN currentPage ELSE p.page
        results == IF stale THEN resultsByKey ELSE mergeResults(resultsByKey, normalized)
        shown == IF stale THEN dropdown
                 ELSE IF p.mode = "first" /\ DOMAIN results = {} THEN renderEmpty
                 ELSE renderResultsList(results, isLoadingMore,
                                        hasMore(isJournal, currentQuery, page, total))
    IN
    /\ p \in pending
    /\ pending' = pending \ {p}
    /\ totalPages' = total
    /\ currentPage' = page
    /\ resultsByKey' = results
    /\ IF p.mode = "more"
       THEN /\ isLoadingMore' = FALSE
            /\ dropdown' = renderResultsList(results, FALSE,
                                             hasMore(isJournal, currentQuery, page, total))
       ELSE /\ dropdown' = shown
            /\ UNCHANGED isLoadingMore
    /\ UNCHANGED <<isJournal, inputValue, debounceTimer, queryToken, currentQuery, sinceInput,
                   cacheVars, keyVars, apiVars, chatVars, urlVars, favVars>>

\* searchMulti rejects for the suspended fetchPage call p: the catch of fetchPage
\* and, for a call made by loadMore, the rest of loadMore
searchMultiRejects(p) ==
    /\ p \in pending
    /\ pending' = pending \ {p}
    /\ IF p.mode = "more"
       THEN /\ isLoadingMore' = FALSE
            /\ dropdown' = renderResultsList(resultsByKey, FALSE,
                               hasMore(isJournal, currentQuery, currentPage, totalPages))
       ELSE /\ dropdown' = renderError
            /\ UNCHANGED isLoadingMore
    /\ UNCHANGED <<isJournal, inputValue, debounceTimer, queryToken, currentQuery, currentPage,
                   totalPages, resultsByKey, sinceInput, cacheVars, keyVars, apiVars, chatVars,
                   urlVars, favVars>>

\* the keydown handler of the document: Escape
escape ==
    /\ dropdown.open
    /\ dropdown' = Closed
    /\ UNCHANGED <<isJournal, inputValue, debounceTimer, queryToken, currentQuery, currentPage,
                   totalPages, isLoadingMore, resultsByKey, pending, sinceInput, cacheVars,
                   keyVars, apiVars, chatVars, urlVars, favVars>>

\* what the user types, and what TMDB answers: the results of the page asked for
\* (none, a movie, or a person, which the search leaves out) and total_pages
Inputs == {"", "a ", "d"}
QueryBase(query) == IF query = "a" THEN 0 ELSE 100
ResultsOf(p) ==
    IF p.page = 1
    THEN {<<>>,
          << [media_type |-> "movie", id |-> QueryBase(p.query) + 1, title |-> Str("Alien")] >>,
          << [media_type |-> "person", id |-> QueryBase(p.query) + 1, name |-> Str("Dana")] >>}
    ELSE {<< [media_type |-> "tv", id |-> QueryBase(p.query) + p.page, name |-> Str("Dark")] >>}
TotalPages == {Undefined, Num(3), Num(12)}
SearchResponses(p) == {[results |-> r, total_pages |-> t] : r \in ResultsOf(p), t \in TotalPages}

NavNext ==
    \/ \E v \in Inputs : input(v)
    \/ NavTick
    \/ runFavouritesSearch
    \/ startTmdbSearch
    \/ loadMore
    \/ \E p \in pending : \E res \in SearchResponses(p) : searchMultiResolves(p, res)
    \/ \E p \in pending : searchMultiRejects(p)
    \/ escape
    \/ initialize(Str("k1"))

\* the page is loaded as home or as journal; the journal has no favourite to
\* search or one
StoredFavourites ==
    {<<>>, <<[key |-> KEY,
              value |-> JSONstringifyList(<<normalizeItem(Item(Num(1), Str("Alien"), Undefined))>>)]>>}
NavSpecInit ==
    /\ \E journal \in BOOLEAN : NavInit(journal)
    /\ now = 1
    /\ memoryCache = EmptyMap
    /\ localStorage \in StoredFavourites
    /\ localStorage # <<>> => isJournal
    /\ timers = <<>>
    /\ inflight = {}
    /\ nextId = 1
    /\ readable = TRUE
    /\ ret = NoRet
    /\ lastSet = EmptyMap
    /\ KeyInit /\ ApiInit /\ ChatInit /\ UrlInit /\ FavInit

NavSpec == NavSpecInit /\ [][NavNext]_vars

-----------------------------------------------------------------------------
(* Properties.  A step is recognised by what it leaves in ret; Tick is the only
   action that leaves ret unchanged. *)

Get(k) == getFromCache(memoryCache, localStorage, now, readable, k)
GetNext(k) == getFromCache(memoryCache', localStorage', now', readable', k)

\* C1 (Expiry): once ttl or more has elapsed since the last set of a key, a get of
\* that key returns absent (whatever gets, clearAll(true) calls, reloads and
\* deferred persistent writes happened in between).
C1_Expiry ==
    \A k \in DOMAIN lastSet :
        now - lastSet[k].at >= lastSet[k].ttl => Get(k).data = Null

\* C2 (Freshness): directly after set(key, data, ttl) with ttl > 0, with no clock
\* advance, get(key) returns data.
C2_Freshness ==
    (ret.op = "resolved" /\ ret.n > 0 /\ lastSet[ret.key].at = now) =>
        Get(ret.key).data = ret.value

\* C3 (Cache hit avoids the network): after a fetchWithCache for a key resolved with
\* R, a fetchWithCache for that key issued before ttl has elapsed, with no clearAll
\* (and no reload) in between, returns R from the cache without a network request.
C3_HitAvoidsNetwork ==
    [][\A cs \in CallSites :
          (/\ nextId' = nextId + 1
           /\ ret'.key = cs.key
           /\ cs.key \in DOMAIN lastSet
           /\ ~lastSet[cs.key].cleared
           /\ now - lastSet[cs.key].at < lastSet[cs.key].ttl)
          => (ret'.op = "hit" /\ ret'.value = lastSet[cs.key].data /\ inflight' = inflight)]_vars

\* C4 (No caching of failures): when the network load of a fetchWithCache call
\* fails, the call rejects with the load's error, neither tier changes, no
\* persistent write is scheduled, and a key that was cold stays cold.
C4_NoCachingOfFailures ==
    [][\A c \in inflight :
          (ret' # ret /\ ret'.op = "rejected" /\ ret'.id = c.id)
          => /\ ret'.value \in Errors
             /\ memoryCache' = memoryCache
             /\ localStorage' = localStorage
             /\ timers' = timers
             /\ (Get(c.key).data = Null => GetNext(c.key).data = Null)]_vars

\* a load failed on a key for which nothing is cached or scheduled
C4_Witness ==
    /\ ret.op = "rejected"
    /\ ret.value \in Errors
    /\ ret.key \notin DOMAIN memoryCache
    /\ Stored(ret.key).tag = "none"
    /\ timers = <<>>
    /\ Get(ret.key).data = Null

\* C7 (Tier promotion): when a valid entry for a key is in the persistent tier only,
\* get(key) returns its data and copies it into the memory tier, and the next
\* get(key) is served from memory without reading the persistent store.
C7_TierPromotion ==
    [][\A cs \in CallSites :
          (/\ nextId' = nextId + 1
           /\ ret'.key = cs.key
           /\ readable
           /\ cs.key \notin DOMAIN memoryCache
           /\ Stored(cs.key).tag = "json"
           /\ isCacheValid(JSONparse(Stored(cs.key)), now))
          => /\ ret'.op = "hit"
             /\ ret'.value = Stored(cs.key).data
             /\ cs.key \in DOMAIN memoryCache'
             /\ memoryCache'[cs.key].data = Stored(cs.key).data
             /\ GetNext(cs.key).data = Stored(cs.key).data
             /\ GetNext(cs.key).reads = 0]_vars

\* C8 (Write-failure isolation): when the deferred persistent write of a set throws,
\* no call is resolved or rejected by it, the memory tier is unchanged, and if
\* memory still holds the (valid) entry of that set then get(key) returns its data.
C8_WriteFailureIsolation ==
    [][(timers # <<>> /\ timers' = Tail(timers) /\ ret'.op = "writeFailed")
          => /\ memoryCache' = memoryCache
             /\ inflight' = inflight
             /\ LET w == Head(timers) IN
                (/\ w.key \in DOMAIN memoryCache
                 /\ memoryCache[w.key].data = w.data
                 /\ memoryCache[w.key].ttl = w.ttl
                 /\ isCacheValid(memoryCache[w.key], now))
                => GetNext(w.key).data = w.data]_vars

\* C9 (Read-side failures are absorbed): get never throws; with a malformed
\* persistent entry or an unreadable store (and no valid memory entry) it returns
\* absent, so that fetchWithCache goes on to the network load; a fetchWithCache
\* call is rejected only with the error of its network load.
C9_ReadFailuresAbsorbed ==
    /\ \A k \in Keys :
          /\ ~Get(k).threw
          /\ ((Stored(k).tag = "malformed" \/ ~readable) /\ getFromMemoryCache(memoryCache, now, k).data = Null)
                => Get(k).data = Null
    /\ ret.op = "rejected" => ret.value \in Errors
    /\ ret.op = "miss" => \E c \in inflight : c.id = ret.id /\ c.key = ret.key

\* a fetchWithCache call found the persistent entry of its key malformed and now
\* waits for the network
C9_Witness ==
    /\ ret.op = "miss"
    /\ readable
    /\ Stored(ret.key).tag = "malformed"
    /\ \E c \in inflight : c.id = ret.id /\ c.key = ret.key

\* a prefixed entry is a cache entry of this client
IsCacheEntry(e) == StartsWith(e.key, STORAGE_PREFIX)
NotCacheEntry(e) == ~IsCacheEntry(e)

\* C10: clearAll(false) empties the memory tier, removes every persistent entry
\* whose key starts with STORAGE_PREFIX, wherever it is in the store, and leaves all
\* other entries (such as KEY, the favourites) as they were, in their order.
C10_ClearAllRemovesNamespaceOnly ==
    [][(ret' # ret /\ ret'.op = "clearAll")
          => /\ memoryCache' = EmptyMap
             /\ localStorage' = SelectSeq(localStorage, NotCacheEntry)
             /\ \A i \in 1..Len(localStorage') : ~StartsWith(localStorage'[i].key, STORAGE_PREFIX)]_vars

\* clearAll(false) has just removed two cache entries and kept the favourites
C10_Witness ==
    /\ ret.op = "clearAll"
    /\ ret.n = 2
    /\ memoryCache = EmptyMap
    /\ Len(localStorage) = 1
    /\ localStorage[1].key = KEY

\* the logical request behind a call: its endpoint and URL parameters (the query
\* of a search compared without regard to case)
FoldPair(pv) == IF pv[1] = "query" THEN <<pv[1], toLowerCase(pv[2])>> ELSE pv
RECURSIVE FoldPairs(_)
FoldPairs(seq) == IF seq = <<>> THEN <<>> ELSE <<FoldPair(Head(seq))>> \o FoldPairs(Tail(seq))
Logical(rq) == [endpoint |-> rq.endpoint, params |-> FoldPairs(rq.params)]

\* C5 (Key collision avoidance at the call sites): two calls of public client
\* methods that issue logically distinct requests (another endpoint, or another
\* value of a URL parameter) use different cache keys, and two calls that issue
\* the same logical request use the same key.
C5_DistinctRequestsDistinctKeys ==
    \A a \in requests, b \in requests :
        (Logical(a) # Logical(b)) <=> (a.cacheKey # b.cacheKey)

IsPresent(v) == v.t \notin {"undefined", "null"}

\* C6 (Key construction): createCacheKey(parts...) is exactly the components that
\* are present (neither undefined nor null), in the order given, joined with ':'.
C6_KeyJoinsPresentParts ==
    cacheKey = join(SelectSeq(parts, IsPresent), ":")

StoredNext(k) == getItem(localStorage', STORAGE_PREFIX \o k)

\* C11 (clearAll(true)): clearAll(true) empties the memory tier and leaves the
\* persistent tier unchanged; for a key that was in both tiers and whose persistent
\* entry is still valid, the next get(key) returns the entry's data and puts it
\* back into the memory tier.
C11_ClearMemoryOnly ==
    [][(ret' # ret /\ ret'.op = "clearMemory")
          => /\ memoryCache' = EmptyMap
             /\ localStorage' = localStorage
             /\ \A k \in Keys :
                   (/\ k \in DOMAIN memoryCache
                    /\ Stored(k).tag = "json"
                    /\ isCacheValid(JSONparse(Stored(k)), now))
                   => /\ GetNext(k).data = Stored(k).data
                      /\ k \in DOMAIN GetNext(k).mem
                      /\ GetNext(k).mem[k].data = Stored(k).data]_vars

\* C12 (I/O bound of get): a get(key) reads the persistent store at most once, and
\* does not touch it when the memory tier holds a valid entry for key (a get never
\* adds a network request: getFromCache has no access to inflight).
C12_GetIOBound ==
    \A k \in Keys :
        /\ Get(k).reads <= 1
        /\ (k \in DOMAIN memoryCache /\ isCacheValid(memoryCache[k], now))
              => (Get(k).reads = 0 /\ Get(k).store = localStorage)

\* C13 (No single-flight): every fetchWithCache call that finds its key cold starts
\* a network request of its own, also while requests for the same key are in
\* flight, and every call whose request succeeds writes its own response: the
\* memory entry at once, the persistent write queued.
C13_NoSingleFlight ==
    [][/\ \A cs \in CallSites :
             (/\ nextId' = nextId + 1
              /\ ret'.key = cs.key
              /\ Get(cs.key).data = Null
              /\ ~Get(cs.key).threw)
             => /\ ret'.op = "miss"
                /\ [id |-> nextId, key |-> cs.key, ttl |-> cs.ttl] \notin inflight
                /\ inflight' = inflight \cup {[id |-> nextId, key |-> cs.key, ttl |-> cs.ttl]}
       /\ \A c \in inflight :
             (ret'.op = "resolved" /\ ret'.id = c.id)
             => /\ memoryCache'[c.key] = [data |-> ret'.value, timestamp |-> now, ttl |-> c.ttl]
                /\ timers' = Append(timers, [key |-> c.key, data |-> ret'.value, ttl |-> c.ttl])
                /\ inflight' = inflight \ {c}]_vars

\* two calls for the same cold key were started, and both wait for their own request
C13_Witness ==
    /\ ret.op = "miss"
    /\ Cardinality({c \in inflight : c.key = ret.key}) = 2
    /\ \E c \in inflight : c.id = ret.id

\* C14 (Last resolver wins): whenever a call has resolved, the memory entry of its
\* key holds that call's response until the next operation; so after concurrent
\* misses have all resolved, memory holds the response that resolved last, whichever
\* call was started first.
C14_LastResolverWins ==
    ret.op = "resolved" =>
        /\ ret.key \in DOMAIN memoryCache
        /\ memoryCache[ret.key].data = ret.value
        /\ memoryCache[ret.key].ttl = ret.n

\* the call started first resolved last, with another response than the call
\* started second, and nothing is in flight any more
C14_Witness ==
    /\ ret.op = "resolved"
    /\ ret.id = 1
    /\ nextId = 3
    /\ inflight = {}
    /\ Len(timers) = 2
    /\ timers[1].key = ret.key
    /\ timers[1].data # ret.value
    /\ timers[2] = [key |-> ret.key, data |-> ret.value, ttl |-> ret.n]
    /\ memoryCache[ret.key].data = ret.value

\* C18 (Promotion preserves expiry): when a get promotes a valid persistent entry,
\* the memory entry gets the persistent entry's timestamp and ttl, so it expires
\* no later than the persistent entry.
C18_PromotionPreservesExpiry ==
    [][\A cs \in CallSites :
          (/\ nextId' = nextId + 1
           /\ ret'.key = cs.key
           /\ ret'.op = "hit"
           /\ ret'.n > 0)
          => /\ memoryCache'[cs.key].timestamp = Stored(cs.key).timestamp
             /\ memoryCache'[cs.key].ttl = Stored(cs.key).ttl
             /\ memoryCache'[cs.key].timestamp + memoryCache'[cs.key].ttl
                   <= Stored(cs.key).timestamp + Stored(cs.key).ttl]_vars

\* C19 (set writes the same entry to both tiers): once the deferred write of the
\* latest set of a key has run, with no later set pending, no clear and the memory
\* entry of that set still in place and valid, the persistent entry equals the
\* memory entry: same data, same ttl, same timestamp.
C19_SameEntryInBothTiers ==
    (/\ ret.op = "written"
     /\ \A i \in 1..Len(timers) : timers[i].key # ret.key
     /\ ret.key \in DOMAIN lastSet
     /\ ~lastSet[ret.key].cleared
     /\ ret.key \in DOMAIN memoryCache
     /\ memoryCache[ret.key] = [data |-> lastSet[ret.key].data,
                                timestamp |-> lastSet[ret.key].at,
                                ttl |-> lastSet[ret.key].ttl]
     /\ ret.value = lastSet[ret.key].data
     /\ isCacheValid(memoryCache[ret.key], now))
    => Stored(ret.key) = JSONstringify(memoryCache[ret.key])

\* C20 (Lazy eviction only): a memory entry disappears only in a get of its own key
\* that finds it expired, in a clearAll, or with the page; a persistent entry only
\* in a get of its own key that finds it expired or in clearAll(false); and an
\* operation on one key leaves the entries of every other key, in both tiers, as
\* they were (so no set evicts anything).
C20_LazyEvictionOnly ==
    [][\A k \in Keys :
          /\ (k \in DOMAIN memoryCache /\ k \notin DOMAIN memoryCache')
                => \/ ret'.op \in {"clearMemory", "clearAll", "clearThrew", "reload"}
                   \/ (/\ nextId' = nextId + 1
                       /\ ret'.key = k
                       /\ ~isCacheValid(memoryCache[k], now))
          /\ (Stored(k).tag # "none" /\ StoredNext(k).tag = "none")
                => \/ ret'.op = "clearAll"
                   \/ (/\ nextId' = nextId + 1
                       /\ ret'.key = k
                       /\ ~isCacheValid(JSONparse(Stored(k)), now))
          /\ (ret'.key \in Keys /\ ret'.key # k)
                => /\ (k \in DOMAIN memoryCache <=> k \in DOMAIN memoryCache')
                   /\ (k \in DOMAIN memoryCache => memoryCache'[k] = memoryCache[k])
                   /\ StoredNext(k) = Stored(k)]_vars

\* a get of one key has just run while the memory tier holds an expired entry of
\* the other key, which stays
C20_Witness ==
    /\ ret.op \in {"hit", "miss"}
    /\ \E k \in Keys :
          /\ k # ret.key
          /\ k \in DOMAIN memoryCache
          /\ ~isCacheValid(memoryCache[k], now)

\* C15: a non-2xx response makes fetchFromApi throw an error whose message is
\* "[TMDB API Error] " followed by the body's status_message when the body has a
\* non-empty one, and by "HTTP <status>" otherwise, also when the body is not
\* JSON.  (That a throwing fetchFromApi caches nothing is C4.)
C15_ErrorCarriesMessageOrStatus ==
    (out.op = "fetchFromApi" /\ ~ok(response)) =>
        /\ out.threw
        /\ out.value.message =
              "[TMDB API Error] " \o
                 (IF response.body.t = "object" /\ Boolean(response.body.status_message)
                  THEN String(response.body.status_message)
                  ELSE "HTTP " \o NumToString(response.status))

\* C16: initialize(key) throws exactly when key is missing, empty or not a string,
\* and then leaves apiKey and isInitialized as they were; isInitialized is false
\* until an initialize has succeeded (which is when apiKey is set), true from then
\* on, and it is what isReady() returns.
C16_InitializeValidates ==
    /\ [](isInitialized <=> apiKey # "")
    /\ [](out.op = "initialize" => (out.threw <=> ~(out.arg.t = "string" /\ out.arg.s # "")))
    /\ [](out.op = "isReady" => out.ready = isInitialized)
    /\ [][(out'.op = "initialize" /\ out'.threw)
             => (apiKey' = apiKey /\ isInitialized' = isInitialized)]_vars
    /\ [][(out'.op = "initialize" /\ ~out'.threw)
             => (apiKey' = out'.arg.s /\ isInitialized')]_vars
    /\ [][isInitialized => isInitialized']_vars

\* an initialize with a number as key threw after an earlier initialize had
\* succeeded, and the client is still ready with the earlier key
C16_Witness ==
    /\ out.op = "initialize"
    /\ out.arg = Num(42)
    /\ out.threw
    /\ isInitialized
    /\ apiKey = "k1"

\* what sendMessage rejects before it sends anything
InvalidMessage(m) == m.t # "string" \/ trim(m.s) = "" \/ Len(trim(m.s)) > 1000

\* C17: the promise of sendMessage never rejects and resolves with a string only;
\* a non-string, empty, whitespace-only or (trimmed) over-long message resolves
\* with a validation text and no request is sent; a non-2xx response, a timeout
\* (abort, not before TIMEOUT_MS) and a transport failure resolve with their
\* error texts.
C17_AlwaysResolvesWithString ==
    /\ reply.state # "rejected"
    /\ reply.state = "resolved" => reply.value.t = "string"
    /\ (reply.state \in {"pending", "resolved"} /\ InvalidMessage(reply.message))
          => /\ reply.state = "resolved"
             /\ reply.sent = 0
             /\ reply.value \in {Str(PleaseEnter), Str(TooLong)}
    /\ (reply.state = "resolved" /\ reply.cause = "http") => reply.value = Str(HttpErrorText)
    /\ (reply.state = "resolved" /\ reply.cause = "timeout")
          => (reply.value = Str(TimedOutText) /\ reply.elapsed >= TIMEOUT_MS)
    /\ (reply.state = "resolved" /\ reply.cause = "transport")
          => reply.value = Str(NoConnectionText)

\* the cache as clearAll(false) leaves it: every key absent, no entry under the
\* cache namespace in the persistent store
ColdNext ==
    /\ \A k \in Keys : GetNext(k).data = Null
    /\ \A i \in 1..Len(localStorage') : ~StartsWith(localStorage'[i].key, STORAGE_PREFIX)

\* C22: after clearAll(false) every key is absent and the persistent store holds no
\* cache entry, and this stays so as long as no set is issued after the clearAll,
\* also when a set issued before it still has its persistent write pending
\* (stated for the clearAll step and for the step that follows it).
C22_ClearAllStaysClear ==
    [][/\ (ret' # ret /\ ret'.op = "clearAll") => ColdNext
       /\ (ret.op = "clearAll" /\ ret'.op # "resolved") => ColdNext]_vars

\* C23 (Tier convergence): when the deferred write of the last set of a key has run
\* (it succeeded, none is pending for the key, nothing was cleared since that set)
\* and the key is in the memory tier, the persistent entry and the memory entry
\* both hold the data of the last set.
C23_TiersConverge ==
    (/\ ret.op = "written"
     /\ \A i \in 1..Len(timers) : timers[i].key # ret.key
     /\ ret.key \in DOMAIN lastSet
     /\ ~lastSet[ret.key].cleared
     /\ ret.key \in DOMAIN memoryCache)
    => /\ Stored(ret.key).data = lastSet[ret.key].data
       /\ memoryCache[ret.key].data = lastSet[ret.key].data

\* the values that the pairs called name have in the query q
ValuesOf(q, name) == SelectSeq(q, LAMBDA pv : pv[1] = name)

\* C21: a URL built by buildUrl has exactly one api_key parameter, the client's
\* key, and exactly one language parameter: the caller's language when params has
\* one that is neither undefined nor null, DEFAULT_LANGUAGE otherwise; every other
\* param that is undefined or null is missing from the URL, and every other param
\* is in it once, as a string.
C21_UrlCarriesKeyAndLanguage ==
    url # NoUrl =>
        LET q == url.built.query
            language == propertyOf(url.params, "language")
        IN /\ ValuesOf(q, "api_key") = << <<"api_key", url.apiKey>> >>
           /\ ValuesOf(q, "language") =
                 << <<"language", IF IsGiven(<<"language", language>>) THEN String(language)
                                  ELSE DEFAULT_LANGUAGE>> >>
           /\ \A i \in 1..Len(url.params) :
                 LET pv == url.params[i] IN
                 pv[1] # "language" =>
                    ValuesOf(q, pv[1]) = IF IsGiven(pv) THEN << <<pv[1], String(pv[2])>> >> ELSE <<>>

\* a URL was built for params that give the empty string as language and null as
\* region
C21_Witness ==
    /\ url # NoUrl
    /\ url.apiKey = "k1"
    /\ propertyOf(url.params, "language") = Str("")
    /\ HasName(url.params, "region")
    /\ propertyOf(url.params, "region") = JsNull
    /\ ValuesOf(url.built.query, "language") = << <<"language", "">> >>

\* the stored favourites and whether an id is among them
Favourites == load(localStorage)
IsStored(list, id) == \E i \in 1..Len(list) : list[i].id = id

\* C24: the stored favourites list has at most one entry per id; addFavourite of
\* an item whose id is already stored, or is undefined or null, leaves the stored
\* list unchanged, and addFavourite of a new item puts it in front of the others.
C24_NoDuplicateFavourites ==
    /\ \A i, j \in 1..Len(Favourites) : i # j => Favourites[i].id # Favourites[j].id
    /\ favOut.op = "addFavourite" =>
          IF IsStored(favOut.before, favOut.id) \/ favOut.id \in {Undefined, JsNull}
          THEN ~favOut.wrote /\ Favourites = favOut.before
          ELSE Favourites = <<JSONobject(favOut.entry)>> \o favOut.before

\* C25: setNote(id, note) changes only the note of the stored favourite with that
\* id and keeps the order, the other entries and the other fields; for an id that
\* is not stored it returns null and writes nothing.  After removeFavourite(id),
\* isFavourite(id) is false and the other entries are there in their old order.
C25_NoteAndRemoveFrame ==
    /\ favOut.op = "setNote" =>
          IF ~IsStored(favOut.before, favOut.id)
          THEN favOut.returnedNull /\ ~favOut.wrote /\ Favourites = favOut.before
          ELSE /\ Len(Favourites) = Len(favOut.before)
               /\ \E i \in 1..Len(Favourites) :
                     /\ favOut.before[i].id = favOut.id
                     /\ \A f \in (DOMAIN Favourites[i]) \ {"note"} :
                           Favourites[i][f] = favOut.before[i][f]
                     /\ \A j \in (1..Len(Favourites)) \ {i} : Favourites[j] = favOut.before[j]
    /\ favOut.op = "removeFavourite" =>
          /\ ~isFavourite(localStorage, favOut.id)
          /\ Favourites = SelectSeq(favOut.before, LAMBDA m : m.id # favOut.id)

\* a note was set on the second of three favourites and changed it
C25_Witness ==
    /\ favOut.op = "setNote"
    /\ favOut.wrote
    /\ Len(favOut.before) = 3
    /\ favOut.before[2].id = favOut.id
    /\ favOut.before[2].note # Favourites[2].note

\* what the dropdown shows, whether hidden or not
Shown(d) == <<d.content, d.list, d.isLoadingMore, d.hasMore>>

\* C26: a search response, success or failure, of a fetchPage call whose token is
\* no longer the newest one changes neither resultsByKey, currentPage and
\* totalPages nor what the dropdown shows.
C26_StaleResponsesDiscarded ==
    [][\A p \in pending \ pending' :
          p.token # queryToken =>
             /\ resultsByKey' = resultsByKey
             /\ currentPage' = currentPage
             /\ totalPages' = totalPages
             /\ Shown(dropdown') = Shown(dropdown)]_vars

\* C27: the debounce callback starts a search only for the latest input value and
\* debounceMs after the last input event; while the input holds fewer than minChars
\* characters the dropdown stays closed (no search reopens it).
C27_DebouncedLatestInputOnly ==
    [][/\ (debounceTimer.armed /\ ~debounceTimer'.armed) =>
             /\ debounceTimer.q = trim(inputValue)
             /\ Len(trim(inputValue)) >= minChars
             /\ sinceInput = debounceMs
       /\ Len(trim(inputValue')) < minChars => ~dropdown'.open]_vars

\* C28: a requested page is at most maxPages and, for loadMore, at most the
\* totalPages of the current query, above the pages already loaded and not a page
\* of that query already requested and still in flight; at most one loadMore
\* request is in flight.
C28_PaginationBounded ==
    [][/\ \A p \in pending' \ pending :
             /\ p.page <= maxPages
             /\ p.mode = "more" =>
                   /\ p.page <= totalPages
                   /\ p.page > currentPage
                   /\ ~\E r \in pending : r.query = p.query /\ r.page = p.page
       /\ Cardinality({p \in pending' : p.mode = "more"}) <= 1]_vars

====
